---- MODULE Spec2Model ----
(***************************************************************************)
(* Clique proof-of-authority engine (ethcore/src/engines/clique/mod.rs).  *)
(*                                                                         *)
(* The state is the engine object (signers, signer, epoch_length) and the *)
(* header the caller currently holds, together with the last engine call  *)
(* and what it returned.  Every engine function is an operator computed   *)
(* as the code computes it; an action applies one function to the header  *)
(* in hand.  A call ends in one of three ways: "Ok", "Err" (a returned    *)
(* Err value) or "panic" (unwrap on Err, index out of range, remainder by *)
(* zero, usize underflow followed by an out-of-range slice).              *)
(*                                                                         *)
(* Bytes are natural numbers.  Addresses are 0 (the zero address) and     *)
(* 1..NumAddrs; an account's public key is identified with its address.   *)
(***************************************************************************)
EXTENDS Integers, Sequences, FiniteSets, TLC

VARIABLES signers, signer, epoch_length, header, op, ret, sig,
          seal, chain, svc, scan, snap

vars == <<signers, signer, epoch_length, header, op, ret, sig,
          seal, chain, svc, scan, snap>>

(* ------------------------------ bounds --------------------------------- *)
NumAddrs == 3
MaxNumber == 3
MaxEpoch == 2
MaxDifficulty == 2
MaxSteps == 4
MaxBlocks == 2

(* ------------------------- program constants --------------------------- *)
SIGNER_VANITY_LENGTH == 32
SIGNER_SIG_LENGTH == 65
ADDRESS_LENGTH == 20
NONCE_LENGTH == 8
HASH_LENGTH == 32

Rep(b, n) == [i \in 1..n |-> b]

NONCE_DROP_VOTE == Rep(0, NONCE_LENGTH)
NONCE_AUTH_VOTE == Rep(15, NONCE_LENGTH)

ZeroAddress == Rep(0, ADDRESS_LENGTH)

Accounts == 1..NumAddrs

(* An Address is 20 bytes; account a is the address whose bytes are all a. *)
AddressBytes(a) == Rep(a, ADDRESS_LENGTH)

(* ------------------------------ results -------------------------------- *)
Ok(v) == [tag |-> "Ok", val |-> v]
Err == [tag |-> "Err", val |-> <<>>]
Panic == [tag |-> "panic", val |-> <<>>]

(* ---------------------- header encoding and hash ----------------------- *)
RECURSIVE encode_seal(_)
encode_seal(fields) ==
  IF fields = <<>> THEN <<>>
  ELSE <<(IF Head(fields).list THEN 1 ELSE 0), Len(Head(fields).data)>>
         \o Head(fields).data \o encode_seal(Tail(fields))

(* rlp::encode(header): the fields in order, each variable-length field   *)
(* preceded by its length, the seal fields included.                      *)
rlp_encode(h) ==
  <<h.author, h.difficulty, h.number, Len(h.extra_data)>> \o h.extra_data
    \o <<Len(h.seal)>> \o encode_seal(h.seal)

(* keccak: a 15-bit polynomial hash of the byte string.                   *)
Mod(x) == x % 32749

RECURSIVE pow31(_)
pow31(k) ==
  IF k = 0 THEN 1
  ELSE LET half == pow31(k \div 2)
       IN Mod(Mod(half * half) * (IF k % 2 = 1 THEN 31 ELSE 1))

RECURSIVE keccak_range(_, _, _)
keccak_range(bytes, lo, hi) ==
  IF lo > hi THEN 7
  ELSE IF lo = hi THEN Mod(bytes[lo] + 1)
  ELSE LET mid == (lo + hi) \div 2
       IN Mod(keccak_range(bytes, lo, mid) * pow31(hi - mid)
              + keccak_range(bytes, mid + 1, hi))

keccak(bytes) == keccak_range(bytes, 1, Len(bytes))

(* ------------------------------ sig_hash ------------------------------- *)
set_extra_data(h, e) == [h EXCEPT !.extra_data = e]

(* sig_hash that hashes the header as it stands, the signature included.  *)
sig_hash_untruncated(h) == Ok(<<keccak(rlp_encode(h))>>)

sig_hash(h) ==
  IF Len(h.extra_data) >= SIGNER_VANITY_LENGTH
  THEN IF Len(h.extra_data) < SIGNER_SIG_LENGTH
       THEN Panic
       ELSE Ok(<<keccak(rlp_encode(set_extra_data(h,
                   SubSeq(h.extra_data, 1, Len(h.extra_data) - SIGNER_SIG_LENGTH))))>>)
  ELSE Ok(<<keccak(rlp_encode(h))>>)

(* --------------------------- signature engine -------------------------- *)
(* A signature is 65 bytes: the signed digest, the signing key, padding.  *)
sign(key, digest) == <<digest, key>> \o Rep(0, SIGNER_SIG_LENGTH - 2)

(* ethkey::recover: no key for a malformed signature; the signing key     *)
(* when the message is the signed digest; otherwise some unrelated key.   *)
ec_recover(s, msg) ==
  IF s[2] \notin Accounts THEN Err
  ELSE IF s[1] = msg THEN Ok(<<s[2]>>)
  ELSE Ok(<<s[2] + NumAddrs>>)

public_to_address(public) == public

(* EngineSigner: signer is {} (no account set) or {a}.                    *)
is_address(a) == a \in signer

signer_sign(digest) ==
  IF signer = {} THEN Err
  ELSE Ok(sign(CHOOSE a \in signer : TRUE, digest))

(* ------------------------------- recover ------------------------------- *)
(* recover that reads the first 65 bytes of extraData instead of the last *)
recover_leading(h) ==
  LET data == h.extra_data IN
  IF Len(data) < SIGNER_SIG_LENGTH THEN Panic
  ELSE LET s == SubSeq(data, 1, SIGNER_SIG_LENGTH)
           msg == sig_hash(h)
       IN IF msg.tag # "Ok" THEN Panic
          ELSE LET pubkey == ec_recover(s, msg.val[1])
               IN IF pubkey.tag # "Ok" THEN Panic ELSE Ok(pubkey.val)

recover(h) ==
  LET data == h.extra_data IN
  IF Len(data) < SIGNER_SIG_LENGTH THEN Panic
  ELSE LET s == SubSeq(data, Len(data) - SIGNER_SIG_LENGTH + 1, Len(data))
           msg == sig_hash(h)
       IN IF msg.tag # "Ok" THEN Panic
          ELSE LET pubkey == ec_recover(s, msg.val[1])
               IN IF pubkey.tag # "Ok" THEN Panic ELSE Ok(pubkey.val)

(* ----------------------------- sign_header ----------------------------- *)
sign_header(h) ==
  LET digest == sig_hash(h) IN
  IF digest.tag # "Ok" THEN digest
  ELSE LET s == signer_sign(digest.val[1])
       IN IF s.tag = "Ok" THEN Ok(s.val) ELSE Err

(* embedSignature: replaces the last 65 bytes of extraData.               *)
embedSignature(h, s) ==
  set_extra_data(h, SubSeq(h.extra_data, 1, Len(h.extra_data) - SIGNER_SIG_LENGTH) \o s)

(* ---------------------------- generate_seal ---------------------------- *)
SealNone == [tag |-> "None", val |-> <<>>]
SealRegular == [tag |-> "Regular", val |-> << <<0, 1, 2>>, <<0, 1, 2>> >>]

(* signers.iter().position(|x| signer.is_address(x)), 0-based; {} if none *)
position ==
  LET hits == {i \in 1..Len(signers) : is_address(signers[i])}
  IN IF hits = {} THEN {}
     ELSE {(CHOOSE i \in hits : \A j \in hits : i <= j) - 1}

authorized(number) ==
  IF position # {}
  THEN LET pos == CHOOSE p \in position : TRUE
       IN number % (pos + 1) = 0
  ELSE FALSE

(* generate_seal without the genesis test                                 *)
generate_seal_any_number(h) ==
  IF authorized(h.number) THEN SealRegular ELSE SealNone

generate_seal(h) ==
  IF h.number = 0 THEN SealNone
  ELSE IF authorized(h.number) THEN SealRegular ELSE SealNone

(* -------------------------- verify_block_basic ------------------------- *)
(* Header::decode_seal: the payload of every seal field, or a decoder     *)
(* error when a field is not a data item.                                 *)
decode_seal(h) ==
  IF \E i \in 1..Len(h.seal) : h.seal[i].list THEN Err
  ELSE Ok([i \in 1..Len(h.seal) |-> h.seal[i].data])

(* verify_block_basic without the beneficiary test                        *)
verify_block_basic_any_author(h) ==
  IF epoch_length = 0 THEN Panic
  ELSE IF h.number % epoch_length = 0
  THEN LET fields == decode_seal(h) IN
       IF fields.tag # "Ok" THEN Panic
       ELSE IF Len(fields.val) < 2 THEN Panic
       ELSE IF fields.val[2] # NONCE_DROP_VOTE THEN Err
       ELSE Ok(<<>>)
  ELSE Ok(<<>>)

verify_block_basic(h) ==
  IF epoch_length = 0 THEN Panic
  ELSE IF h.number % epoch_length = 0
  THEN IF AddressBytes(h.author) # ZeroAddress THEN Err
       ELSE LET fields == decode_seal(h) IN
            IF fields.tag # "Ok" THEN Panic
            ELSE IF Len(fields.val) < 2 THEN Panic
            ELSE IF fields.val[2] # NONCE_DROP_VOTE THEN Err
            ELSE Ok(<<>>)
  ELSE Ok(<<>>)

(* ------------------------ verify_block_unordered ----------------------- *)
verify_block_unordered(h) == Ok(<<>>)

(* ------------------------------- inputs -------------------------------- *)
(* The signer list: ascending, without duplicates.                        *)
RECURSIVE SortedSeq(_)
SortedSeq(S) ==
  IF S = {} THEN <<>>
  ELSE LET m == CHOOSE x \in S : \A y \in S : x <= y
       IN <<m>> \o SortedSeq(S \ {m})

SignerLists == {SortedSeq(S) : S \in SUBSET Accounts}

Data(bytes) == [list |-> FALSE, data |-> bytes]
MixHash == Data(Rep(0, HASH_LENGTH))

(* Seals: no field, one field, an undecodable field, and two fields with  *)
(* the nonces 00..00, 0f..0f, ff..ff, 7 zero bytes, and 00..01.           *)
SealSamples ==
  { <<>>, <<MixHash>>, <<MixHash, [list |-> TRUE, data |-> <<>>]>>,
    <<MixHash, Data(NONCE_DROP_VOTE)>>, <<MixHash, Data(NONCE_AUTH_VOTE)>>,
    <<MixHash, Data(Rep(255, NONCE_LENGTH))>>,
    <<MixHash, Data(Rep(0, NONCE_LENGTH - 1))>>,
    <<MixHash, Data(Rep(0, NONCE_LENGTH - 1) \o <<1>>)>> }

ExtraLengths ==
  { 0, SIGNER_VANITY_LENGTH - 1, SIGNER_VANITY_LENGTH, SIGNER_SIG_LENGTH - 1,
    SIGNER_SIG_LENGTH, SIGNER_VANITY_LENGTH + SIGNER_SIG_LENGTH - 1,
    SIGNER_VANITY_LENGTH + SIGNER_SIG_LENGTH,
    SIGNER_VANITY_LENGTH + SIGNER_SIG_LENGTH + 1,
    SIGNER_VANITY_LENGTH + ADDRESS_LENGTH + SIGNER_SIG_LENGTH }

ExtraSamples == {Rep(b, n) : b \in {0, 1}, n \in ExtraLengths}

DefaultExtra == Rep(0, SIGNER_VANITY_LENGTH + SIGNER_SIG_LENGTH)
DefaultSeal == <<MixHash, Data(NONCE_DROP_VOTE)>>

Header(n, a, d, e, s) ==
  [number |-> n, author |-> a, difficulty |-> d, extra_data |-> e, seal |-> s]

(* A header whose trailing 65 bytes are account a's signature over its    *)
(* signing digest.                                                        *)
SealedBy(h, a) == embedSignature(h, sign(a, sig_hash(h).val[1]))

(* Headers for local sealing: only the number matters to generate_seal.   *)
NumberHeaders ==
  {Header(n, 0, 1, DefaultExtra, DefaultSeal) : n \in 0..MaxNumber}

(* Headers for the structural checks: beneficiary, seal and extraData.    *)
BasicHeaders ==
  {Header(n, a, 1, e, DefaultSeal) :
     n \in 0..MaxNumber, a \in {0, 1}, e \in ExtraSamples}
  \cup
  {Header(n, a, 1, DefaultExtra, s) :
     n \in 0..MaxNumber, a \in {0, 1}, s \in SealSamples}

(* Headers for hashing, signing and recovery: extraData of every length.  *)
SignHeaders ==
  {Header(n, 0, 1, e, DefaultSeal) : n \in 0..MaxNumber, e \in ExtraSamples}

(* Headers for seal verification: unsealed, or sealed by an account.      *)
SealedHeaders ==
  {Header(n, 0, d, DefaultExtra, DefaultSeal) :
     n \in 0..MaxNumber, d \in 1..MaxDifficulty}
  \cup
  {SealedBy(Header(n, 0, d, DefaultExtra, DefaultSeal), a) :
     n \in 0..MaxNumber, d \in 1..MaxDifficulty, a \in Accounts}

(* ------------------------ state outside the engine -------------------- *)
(* The step trigger and the client reference: client is "none" (no        *)
(* client registered), "alive" or "dropped" (registered, torn down        *)
(* since); locked is TRUE while the timer thread is inside step() holding *)
(* the read lock on client; steps counts the timer's calls of step(),     *)
(* requests the calls of update_sealing; stopped is TRUE once stop() has  *)
(* returned.                                                              *)
NewService ==
  [client |-> "none", locked |-> FALSE, steps |-> 0, requests |-> 0,
   stopped |-> FALSE]

(* generate_seal in progress: the next index of signers to test and the  *)
(* signing identities configured since the call began.                    *)
NoScan == [active |-> FALSE, next |-> 0, seen |-> {}]

(* The snapshot of a checkpoint: its signer list, no recent signer, no    *)
(* vote.                                                                  *)
Checkpoint(list) ==
  [number |-> 0, signers |-> {list[i] : i \in 1..Len(list)},
   recents |-> <<>>, votes |-> <<>>]

(* ------------------------ authorization snapshot ----------------------- *)
(* recents is a sequence of <<block number, signer>>, oldest first; votes *)
(* a sequence of [voter, target, auth], in the order observed, at most    *)
(* one per voter and target.                                              *)
AUTH == Rep(255, NONCE_LENGTH)

Window(n) == n \div 2 + 1

(* The live votes for target t in direction auth.                         *)
Tally(votes, t, auth) ==
  Cardinality({i \in 1..Len(votes) : votes[i].target = t /\ votes[i].auth = auth})

(* The votes that are in the set kept, in the order recorded.             *)
KeepVotes(votes, kept) ==
  LET RECURSIVE go(_)
      go(i) == IF i > Len(votes) THEN <<>>
               ELSE (IF votes[i] \in kept THEN <<votes[i]>> ELSE <<>>) \o go(i + 1)
  IN go(1)

KeepRecents(recents, above) ==
  LET RECURSIVE go(_)
      go(i) == IF i > Len(recents) THEN <<>>
               ELSE (IF recents[i][1] > above THEN <<recents[i]>> ELSE <<>>) \o go(i + 1)
  IN go(1)

(* Step 5: the vote of header h by signer s is recorded, replacing that   *)
(* voter's vote for the same target.                                      *)
CastVote(votes, s, h) ==
  LET others == {v \in {votes[i] : i \in 1..Len(votes)} :
                    ~(v.voter = s /\ v.target = h.author)}
  IN KeepVotes(votes, others)
       \o <<[voter |-> s, target |-> h.author,
             auth |-> (decode_seal(h).val[2] = AUTH)]>>

(* Passes with the threshold at half the signer count, not above it.      *)
PassesAtHalf(snapshot, votes, t) ==
  Tally(votes, t, t \notin snapshot.signers) >= Cardinality(snapshot.signers) \div 2

(* Step 5: the votes for the header's beneficiary in the direction that   *)
(* changes its membership strictly exceed half the signer count.          *)
Passes(snapshot, votes, t) ==
  Tally(votes, t, t \notin snapshot.signers) > Cardinality(snapshot.signers) \div 2

(* Step 5: the membership change, with the votes and recents it discards. *)
Resolve(snapshot, votes, recents, t) ==
  LET removed == t \in snapshot.signers
      members == IF removed THEN snapshot.signers \ {t} ELSE snapshot.signers \cup {t}
      live == {v \in {votes[i] : i \in 1..Len(votes)} :
                 v.target # t /\ ~(removed /\ v.voter = t)}
      last == IF recents = <<>> THEN 0 ELSE recents[Len(recents)][1]
  IN [signers |-> members,
      votes |-> KeepVotes(votes, live),
      recents |-> IF removed
                  THEN KeepRecents(recents, last - Window(Cardinality(members)))
                  ELSE recents]

(* Headers that carry a vote: beneficiary, nonce and a signature.         *)
VoteHeaders ==
  {SealedBy(Header(n, t, 1, DefaultExtra, <<MixHash, Data(nonce)>>), a) :
     n \in 1..MaxBlocks, t \in 0..NumAddrs,
     nonce \in {AUTH, Rep(0, NONCE_LENGTH)}, a \in Accounts}

(* recover(h) of every vote header, computed once.                        *)
recoverSigner == [h \in VoteHeaders |-> recover(h)]

apply(snapshot, h) ==
  LET key == recoverSigner[h]
      s == public_to_address(key.val[1])
      n == Cardinality(snapshot.signers)
      recents == Append(KeepRecents(snapshot.recents, h.number - Window(n)),
                        <<h.number, s>>)
  IN IF key.tag # "Ok" THEN Err
     ELSE IF s \notin snapshot.signers THEN Err
     ELSE IF \E i \in 1..Len(snapshot.recents) :
               /\ snapshot.recents[i][2] = s
               /\ snapshot.recents[i][1] > h.number - Window(n)
          THEN Err
     ELSE IF epoch_length = 0 THEN Panic
     ELSE IF h.number % epoch_length = 0
          THEN Ok([number |-> h.number, signers |-> snapshot.signers,
                   recents |-> recents, votes |-> <<>>])
     ELSE IF h.author = 0
          THEN Ok([number |-> h.number, signers |-> snapshot.signers,
                   recents |-> recents, votes |-> snapshot.votes])
     ELSE LET votes == CastVote(snapshot.votes, s, h)
          IN IF Passes(snapshot, votes, h.author)
             THEN LET r == Resolve(snapshot, votes, recents, h.author)
                  IN Ok([number |-> h.number, signers |-> r.signers,
                         recents |-> r.recents, votes |-> r.votes])
             ELSE Ok([number |-> h.number, signers |-> snapshot.signers,
                      recents |-> recents, votes |-> votes])

(* ------------------------------ behaviour ------------------------------ *)
(* The engine as constructed: no client, no signing account, the header   *)
(* in hand is the genesis header.  Clique::new leaves signers empty and   *)
(* takes epoch_length from the parameters (0 when the chain spec omits    *)
(* it); the signer list is a field of the engine and the sealing and seal *)
(* verification specifications draw it from SignerLists.                  *)
New(list, epoch) ==
  /\ signers = list
  /\ signer = {}
  /\ epoch_length = epoch
  /\ header = Header(0, 0, 1, DefaultExtra, DefaultSeal)
  /\ op = "new"
  /\ ret = Ok(<<>>)
  /\ sig = <<>>
  /\ seal = SealNone
  /\ chain = <<>>
  /\ svc = NewService
  /\ scan = NoScan
  /\ snap = Checkpoint(list)

SetSigner(a) ==
  /\ signer' = {a}
  /\ op' = "set_signer"
  /\ ret' = Ok(<<>>)
  /\ sig' = <<>>
  /\ UNCHANGED <<signers, epoch_length, header, seal, chain, svc, scan, snap>>

(* A header reaches the engine from the client.                           *)
Import(h) ==
  /\ header' = h
  /\ op' = "import"
  /\ ret' = Ok(<<>>)
  /\ sig' = <<>>
  /\ seal' = SealNone
  /\ UNCHANGED <<signers, signer, epoch_length, chain, svc, scan, snap>>

Call(name, result) ==
  /\ op' = name
  /\ ret' = result
  /\ UNCHANGED <<signers, signer, epoch_length, header, chain, svc, scan, snap>>

(* generate_seal; the caller keeps the seal it got for the block.         *)
GenerateSeal ==
  /\ Call("generate_seal", generate_seal(header))
  /\ seal' = generate_seal(header)
  /\ UNCHANGED sig

VerifyBlockBasic ==
  Call("verify_block_basic", verify_block_basic(header)) /\ UNCHANGED <<sig, seal>>

VerifyBlockUnordered ==
  Call("verify_block_unordered", verify_block_unordered(header)) /\ UNCHANGED <<sig, seal>>

SigHash == Call("sig_hash", sig_hash(header)) /\ UNCHANGED <<sig, seal>>

Recover == Call("recover", recover(header)) /\ UNCHANGED <<sig, seal>>

(* sign_header; the caller keeps the signature it got.                    *)
SignHeader ==
  /\ Call("sign_header", sign_header(header))
  /\ sig' = IF sign_header(header).tag = "Ok" THEN sign_header(header).val ELSE <<>>
  /\ UNCHANGED seal

(* The signature just produced is put into the header's extraData.        *)
EmbedSignature ==
  /\ sig # <<>>
  /\ Len(header.extra_data) >= SIGNER_SIG_LENGTH
  /\ header' = embedSignature(header, sig)
  /\ op' = "embed_signature"
  /\ ret' = Ok(<<>>)
  /\ UNCHANGED <<signers, signer, epoch_length, sig, seal, chain, svc, scan, snap>>

(* Local sealing decisions.                                               *)
InitSeal == \E list \in SignerLists : \E epoch \in 0..MaxEpoch : New(list, epoch)

NextSeal ==
  \/ \E a \in Accounts : SetSigner(a)
  \/ \E h \in NumberHeaders : Import(h)
  \/ GenerateSeal

SpecSeal == InitSeal /\ [][NextSeal]_vars

(* Structural verification of incoming headers.                           *)
InitBasic == \E epoch \in 0..MaxEpoch : New(<<>>, epoch)

NextBasic ==
  \/ \E h \in BasicHeaders : Import(h)
  \/ VerifyBlockBasic

SpecBasic == InitBasic /\ [][NextBasic]_vars

(* Hashing, signing, embedding and recovery.                              *)
InitSign == New(<<>>, 0)

NextSign ==
  \/ \E a \in Accounts : SetSigner(a)
  \/ \E h \in SignHeaders : Import(h)
  \/ SigHash
  \/ SignHeader
  \/ EmbedSignature
  \/ Recover

SpecSign == InitSign /\ [][NextSign]_vars

(* Seal verification of incoming headers against the signer list.         *)
InitUnordered == \E list \in SignerLists : New(list, 0)

NextUnordered ==
  \/ \E h \in SealedHeaders : Import(h)
  \/ Recover
  \/ VerifyBlockUnordered

SpecUnordered == InitUnordered /\ [][NextUnordered]_vars

(* A chain of verified blocks.  The client makes the header the next      *)
(* block of the chain once verify_block_unordered has accepted it; chain  *)
(* holds the address that sealed each block, chain[k] for block k.        *)
InsertBlock ==
  /\ op = "verify_block_unordered"
  /\ ret.tag = "Ok"
  /\ header.number = Len(chain) + 1
  /\ recover(header).tag = "Ok"
  /\ chain' = Append(chain, public_to_address(recover(header).val[1]))
  /\ op' = "insert_block"
  /\ UNCHANGED <<signers, signer, epoch_length, header, ret, sig, seal, svc, scan, snap>>

InitChain == \E list \in SignerLists : New(list, 0)

NextChain ==
  \/ \E h \in SealedHeaders : Import(h)
  \/ VerifyBlockUnordered
  \/ InsertBlock

SpecChain == InitChain /\ [][NextChain]_vars

(* The step trigger.  The timer thread calls step(): it takes the read    *)
(* lock on client (StepLock), then upgrades the weak reference and calls  *)
(* update_sealing on the client if there is one (StepCall), and releases  *)
(* the lock.  register_client takes the write lock, so it waits while     *)
(* step() holds the read lock.  The client is torn down by its owner at   *)
(* any time.  stop() has an empty body.                                   *)

(* step that calls update_sealing without looking at the reference        *)
step_calls_always(client) == 1

(* The number of update_sealing calls one step() makes.                   *)
step_calls(client) == IF client = "alive" THEN 1 ELSE 0

StepLock ==
  /\ ~svc.locked
  /\ svc.steps < MaxSteps
  /\ svc' = [svc EXCEPT !.locked = TRUE, !.steps = @ + 1]
  /\ op' = "timer"
  /\ UNCHANGED <<signers, signer, epoch_length, header, ret, sig, seal, chain, scan, snap>>

StepCall ==
  /\ svc.locked
  /\ svc' = [svc EXCEPT !.locked = FALSE, !.requests = @ + step_calls(svc.client)]
  /\ op' = "step"
  /\ ret' = Ok(<<>>)
  /\ UNCHANGED <<signers, signer, epoch_length, header, sig, seal, chain, scan, snap>>

RegisterClient ==
  /\ ~svc.locked
  /\ svc' = [svc EXCEPT !.client = "alive"]
  /\ op' = "register_client"
  /\ ret' = Ok(<<>>)
  /\ UNCHANGED <<signers, signer, epoch_length, header, sig, seal, chain, scan, snap>>

DropClient ==
  /\ svc.client = "alive"
  /\ svc' = [svc EXCEPT !.client = "dropped"]
  /\ UNCHANGED <<signers, signer, epoch_length, header, op, ret, sig, seal, chain, scan, snap>>

Stop ==
  /\ ~svc.stopped
  /\ svc' = [svc EXCEPT !.stopped = TRUE]
  /\ UNCHANGED <<signers, signer, epoch_length, header, op, ret, sig, seal, chain, scan, snap>>

InitStep == New(<<>>, 0)

NextStep ==
  \/ StepLock
  \/ StepCall
  \/ RegisterClient
  \/ DropClient
  \/ Stop

SpecStep == InitStep /\ [][NextStep]_vars

(* The snapshot follows the chain: the header after the snapshot's block  *)
(* arrives and is applied; a header that fails is discarded and leaves    *)
(* the snapshot as it was.                                                *)
Apply(h) ==
  LET r == apply(snap, h) IN
  /\ h.number = snap.number + 1
  /\ header' = IF r.tag = "Ok" THEN h ELSE header
  /\ op' = "apply"
  /\ ret' = IF r.tag = "Ok" THEN Ok(<<>>) ELSE r
  /\ snap' = IF r.tag = "Ok" THEN r.val ELSE snap
  /\ UNCHANGED <<signers, signer, epoch_length, sig, seal, chain, svc, scan>>

InitVotes ==
  \E list \in SignerLists : \E epoch \in 0..(MaxEpoch + 1) : New(list, epoch)

NextVotes == \E h \in VoteHeaders : Apply(h)

SpecVotes == InitVotes /\ [][NextVotes]_vars

(* Checkpoint headers reaching the engine as constructed.  The extraData  *)
(* of a checkpoint header is vanity, the signer list at 20 bytes each,    *)
(* and the signature.                                                     *)
RECURSIVE ListBytes(_)
ListBytes(list) ==
  IF list = <<>> THEN <<>> ELSE AddressBytes(Head(list)) \o ListBytes(Tail(list))

CheckpointExtra(list) ==
  Rep(0, SIGNER_VANITY_LENGTH) \o ListBytes(list) \o Rep(0, SIGNER_SIG_LENGTH)

CheckpointHeaders ==
  {Header(n, 0, 1, CheckpointExtra(list), DefaultSeal) :
     n \in 0..MaxNumber, list \in SignerLists}
  \cup
  {SealedBy(Header(n, 0, 1, CheckpointExtra(list), DefaultSeal), a) :
     n \in 0..MaxNumber, list \in SignerLists, a \in Accounts}

InitSeed == \E epoch \in 0..MaxEpoch : New(<<>>, epoch)

NextSeed ==
  \/ \E h \in CheckpointHeaders : Import(h)
  \/ VerifyBlockBasic
  \/ VerifyBlockUnordered

SpecSeed == InitSeed /\ [][NextSeed]_vars

(* Closing a locally sealed block: on_close_block has an empty body and   *)
(* returns Ok(()).                                                        *)
OnCloseBlock ==
  Call("on_close_block", Ok(<<>>)) /\ UNCHANGED <<sig, seal>>

InitClose == \E list \in SignerLists : \E epoch \in 0..MaxEpoch : New(list, epoch)

NextClose ==
  \/ \E a \in Accounts : SetSigner(a)
  \/ \E h \in NumberHeaders : Import(h)
  \/ GenerateSeal
  \/ OnCloseBlock

SpecClose == InitClose /\ [][NextClose]_vars

(* The engine built from a chain spec.  The epoch of the chain spec is {} *)
(* (omitted) or {e}; the conversion takes the default of u64 when it is   *)
(* omitted, and Clique::new takes the converted value as it is.           *)
epoch_from(p) == IF p = {} THEN 0 ELSE CHOOSE e \in p : TRUE

InitParams ==
  \E p \in {{}} \cup {{e} : e \in 0..MaxEpoch} : New(<<>>, epoch_from(p))

SpecParams == InitParams /\ [][NextBasic]_vars

(* generate_seal step by step, with set_signer on another thread.  The    *)
(* closure of position() takes the read lock on signer for one element of *)
(* signers and releases it, so set_signer (the write lock) can run        *)
(* between two elements.  scan.next is the 1-based index of the element   *)
(* to test next; scan.seen holds the value of signer at the start of the  *)
(* call and every value set during it, and is kept after the call.        *)
Returns(result) ==
  /\ op' = "generate_seal"
  /\ ret' = result
  /\ seal' = result

(* The genesis test, and the scan of an empty list, which ends at once.   *)
ScanBegin ==
  /\ ~scan.active
  /\ op = "import"
  /\ IF header.number = 0 \/ signers = <<>>
     THEN /\ Returns(SealNone)
          /\ scan' = [active |-> FALSE, next |-> 0, seen |-> {signer}]
     ELSE /\ scan' = [active |-> TRUE, next |-> 1, seen |-> {signer}]
          /\ op' = "scan"
          /\ UNCHANGED <<ret, seal>>
  /\ UNCHANGED <<signers, signer, epoch_length, header, sig, chain, svc, snap>>

(* One element: is_address under the read lock.  A hit at index next is   *)
(* position next - 1, and the block is sealed when number % next = 0; a   *)
(* miss on the last element ends the scan with no position.               *)
ScanTest ==
  /\ scan.active
  /\ IF is_address(signers[scan.next])
     THEN /\ Returns(IF header.number % ((scan.next - 1) + 1) = 0
                     THEN SealRegular ELSE SealNone)
          /\ scan' = [scan EXCEPT !.active = FALSE, !.next = 0]
     ELSE IF scan.next = Len(signers)
     THEN /\ Returns(SealNone)
          /\ scan' = [scan EXCEPT !.active = FALSE, !.next = 0]
     ELSE /\ scan' = [scan EXCEPT !.next = @ + 1]
          /\ UNCHANGED <<op, ret, seal>>
  /\ UNCHANGED <<signers, signer, epoch_length, header, sig, chain, svc, snap>>

(* set_signer on another thread while generate_seal is scanning.          *)
SetSignerDuringScan(a) ==
  /\ scan.active
  /\ signer' = {a}
  /\ scan' = [scan EXCEPT !.seen = @ \cup {{a}}]
  /\ UNCHANGED <<signers, epoch_length, header, op, ret, sig, seal, chain, svc, snap>>

InitRace == \E list \in SignerLists : New(list, 0)

NextRace ==
  \/ \E a \in Accounts : ~scan.active /\ SetSigner(a)
  \/ \E h \in NumberHeaders : ~scan.active /\ Import(h)
  \/ ScanBegin
  \/ ScanTest
  \/ \E a \in Accounts : SetSignerDuringScan(a)

SpecRace == InitRace /\ [][NextRace]_vars

(* ------------------------------- claims -------------------------------- *)
Members == {signers[i] : i \in 1..Len(signers)}

Trailing(h) ==
  SubSeq(h.extra_data, Len(h.extra_data) - SIGNER_SIG_LENGTH + 1, Len(h.extra_data))

WithTrailing(h, s) ==
  set_extra_data(h,
    SubSeq(h.extra_data, 1, Len(h.extra_data) - SIGNER_SIG_LENGTH) \o s)

IsCheckpoint(h) == epoch_length > 0 /\ h.number % epoch_length = 0

(* The seal decodes to at least two fields and the second is 8 zero bytes *)
HasDropNonce(h) ==
  /\ decode_seal(h).tag = "Ok"
  /\ Len(h.seal) >= 2
  /\ decode_seal(h).val[2] = Rep(0, NONCE_LENGTH)

(* Byte strings to put in place of the trailing 65 bytes of extraData.    *)
SignatureSamples ==
  {Rep(b, SIGNER_SIG_LENGTH) : b \in {0, 1, 2}}
    \cup {sign(a, d) : a \in Accounts, d \in {0, 1}}

(* C1: generate_seal returns Seal::None for every block whose number is   *)
(* 0, whatever the signing account and the signer list.                   *)
C1_GenesisNeverSealed ==
  (op = "generate_seal" /\ header.number = 0) => ret.tag = "None"

(* generate_seal has run on block 0 with the local account at some        *)
(* position of the signer list.                                           *)
C1_Witness ==
  op = "generate_seal" /\ header.number = 0 /\ position # {}

(* C2: for a block with number > 0, generate_seal returns a regular seal  *)
(* exactly when the local signing address is a member of the signer set   *)
(* and has not signed recently (the engine records no recent signer, so   *)
(* no address has), and Seal::None otherwise.                             *)
C2_SealsIffMember ==
  (op = "generate_seal" /\ header.number > 0)
    => /\ ret.tag \in {"Regular", "None"}
       /\ ret.tag = "Regular" <=> (signer \cap Members # {})

(* C3: the signer at position p of the sorted signer list is the one      *)
(* generate_seal selects for block n if and only if n mod len(signers)    *)
(* = p.                                                                   *)
C3_TurnIsNumberModLength ==
  (op = "generate_seal" /\ header.number > 0)
    => \A p \in position :
         ret.tag = "Regular" <=> (header.number % Len(signers) = p)

(* C4: verify_block_basic returns an error for every checkpoint header    *)
(* (number % epoch = 0) whose beneficiary is not the zero address.        *)
C4_CheckpointBeneficiaryRejected ==
  (op = "verify_block_basic" /\ IsCheckpoint(header) /\ header.author # 0)
    => ret.tag = "Err"

(* verify_block_basic has run on a checkpoint header above genesis whose  *)
(* beneficiary is set and whose nonce is the drop nonce.                  *)
C4_Witness ==
  /\ op = "verify_block_basic"
  /\ IsCheckpoint(header)
  /\ header.number > 0
  /\ header.author # 0
  /\ header.seal = DefaultSeal

(* C5: verify_block_basic returns an error, and does not abort, for every *)
(* checkpoint header whose nonce is not 8 zero bytes, also when the seal  *)
(* has fewer than two fields or cannot be decoded.                        *)
C5_CheckpointNonceRejected ==
  (op = "verify_block_basic" /\ IsCheckpoint(header) /\ ~HasDropNonce(header))
    => ret.tag = "Err"

(* C6: verify_block_basic accepts no header whose extraData is shorter    *)
(* than 32 + 65 bytes, and no checkpoint header whose extraData length is *)
(* not 32 + 20 * N + 65.                                                  *)
C6_ExtraDataLengthEnforced ==
  (op = "verify_block_basic" /\ ret.tag = "Ok")
    => /\ Len(header.extra_data) >= SIGNER_VANITY_LENGTH + SIGNER_SIG_LENGTH
       /\ IsCheckpoint(header) =>
            (Len(header.extra_data) - SIGNER_VANITY_LENGTH - SIGNER_SIG_LENGTH)
              % ADDRESS_LENGTH = 0

(* C7: the drop nonce is 8 bytes of 0x00, the auth nonce is 8 bytes of    *)
(* 0xff, and every header verify_block_basic accepts carries one of them. *)
C7_NonceBitExact ==
  (op = "verify_block_basic" /\ ret.tag = "Ok")
    => /\ NONCE_DROP_VOTE = Rep(0, NONCE_LENGTH)
       /\ NONCE_AUTH_VOTE = Rep(255, NONCE_LENGTH)
       /\ decode_seal(header).tag = "Ok"
       /\ Len(header.seal) >= 2
       /\ decode_seal(header).val[2]
            \in {Rep(0, NONCE_LENGTH), Rep(255, NONCE_LENGTH)}

(* C8: sig_hash gives the same digest for headers that differ only in the *)
(* trailing 65 bytes of extraData, and that digest is the hash of the     *)
(* header encoded with extraData cut by exactly 65 bytes.                 *)
C8_DigestExcludesSignature ==
  (op = "sig_hash" /\ Len(header.extra_data) >= SIGNER_SIG_LENGTH)
    => /\ ret.tag = "Ok"
       /\ \A s \in SignatureSamples : sig_hash(WithTrailing(header, s)) = ret
       /\ ret.val = <<keccak(rlp_encode(WithTrailing(header, <<>>)))>>

(* sig_hash has run on a header whose extraData ends in 65 nonzero bytes. *)
C8_Witness ==
  /\ op = "sig_hash"
  /\ Len(header.extra_data) >= SIGNER_SIG_LENGTH
  /\ Trailing(header) = Rep(1, SIGNER_SIG_LENGTH)
  /\ ret.tag = "Ok"

C10_TurnDifficultyEnforced ==
  (/\ op = "verify_block_unordered"
   /\ ret.tag = "Ok"
   /\ recover(header).tag = "Ok"
   /\ public_to_address(recover(header).val[1]) \in Members)
    => header.difficulty =
         IF signers[(header.number % Len(signers)) + 1]
              = public_to_address(recover(header).val[1])
         THEN 2 ELSE 1

(* C11: verify_block_unordered rejects every header whose recovered       *)
(* signer is not a member of the signer set.                              *)
C11_UnauthorizedSignerRejected ==
  (/\ op = "verify_block_unordered"
   /\ recover(header).tag = "Ok"
   /\ public_to_address(recover(header).val[1]) \notin Members)
    => ret.tag = "Err"

(* C12: with N signers, a header for the next block of the chain is       *)
(* accepted only if its signer sealed none of the floor(N/2) blocks       *)
(* before it (the window of floor(N/2) + 1 blocks holds each signer at    *)
(* most once).                                                            *)
C12_RecentSignerRejected ==
  (/\ op = "verify_block_unordered"
   /\ ret.tag = "Ok"
   /\ header.number = Len(chain) + 1
   /\ recover(header).tag = "Ok"
   /\ public_to_address(recover(header).val[1]) \in Members)
    => \A k \in 1..Len(chain) :
         (header.number - k < Len(signers) \div 2 + 1)
           => chain[k] # public_to_address(recover(header).val[1])

(* C13: once stop() has returned, the timer calls step() no more.         *)
C13_NoStepAfterStop ==
  [][svc.stopped => svc'.steps = svc.steps]_vars

(* C14: a call of step() makes exactly one update_sealing request when a  *)
(* client is registered and alive, and otherwise none; it returns without *)
(* error and changes nothing else, however register_client and the        *)
(* client's teardown interleave with it.                                  *)
C14_StepRequestsSealingOnce ==
  [][(svc.locked /\ ~svc'.locked)
       => /\ svc'.requests = svc.requests + (IF svc.client = "alive" THEN 1 ELSE 0)
          /\ svc'.client = svc.client
          /\ ret'.tag = "Ok"
          /\ UNCHANGED <<signers, signer, epoch_length, header, sig, seal>>]_vars

(* step() has run at least twice, once with a live client and once with  *)
(* none, the client registered or torn down in between.                   *)
C14_Witness ==
  /\ op = "step"
  /\ ~svc.locked
  /\ svc.requests >= 1
  /\ svc.requests < svc.steps

(* The voters other than s whose live vote for target t is an Auth vote.  *)
OtherAuthVoters(votes, s, t) ==
  {votes[i].voter : i \in {j \in 1..Len(votes) :
      votes[j].target = t /\ votes[j].auth /\ votes[j].voter # s}}

(* The live Auth votes for target t once header h, signed by s, has been  *)
(* recorded: the other voters' Auth votes and the vote h casts.           *)
LiveAuthVotes(votes, s, h, t) ==
  Cardinality(OtherAuthVoters(votes, s, t))
    + (IF h.author = t /\ decode_seal(h).val[2] = AUTH THEN 1 ELSE 0)

(* C15: with N signers before a block, an address that is not a signer    *)
(* joins the signer set at that block exactly when the block is a         *)
(* non-checkpoint block that votes on it and its live Auth votes, this    *)
(* block's vote recorded, number at least floor(N/2)+1; and once it has   *)
(* joined no vote for it remains recorded.                                *)
C15_AuthMajorityJoins ==
  [][(op' = "apply" /\ ret'.tag = "Ok")
       => \A t \in Accounts \ snap.signers :
            /\ t \in snap'.signers
                 <=> /\ header'.author = t
                     /\ header'.number % epoch_length # 0
                     /\ LiveAuthVotes(snap.votes, recoverSigner[header'].val[1], header', t)
                          >= Cardinality(snap.signers) \div 2 + 1
            /\ t \in snap'.signers
                 => \A i \in 1..Len(snap'.votes) : snap'.votes[i].target # t]_vars

(* A candidate outside a two-signer list has joined at the second block,  *)
(* on the second signer's Auth vote.                                      *)
C15_Witness ==
  /\ op = "apply" /\ ret.tag = "Ok"
  /\ Len(signers) = 2 /\ snap.number = 2
  /\ header.author \notin Members
  /\ header.author \in snap.signers
  /\ \A i \in 1..Len(snap.votes) : snap.votes[i].target # header.author

(* The signer list embedded in the extraData of header h: the addresses   *)
(* between the vanity and the signature.                                  *)
EmbeddedSigners(h) ==
  LET n == (Len(h.extra_data) - SIGNER_VANITY_LENGTH - SIGNER_SIG_LENGTH)
             \div ADDRESS_LENGTH
      At(i) == SubSeq(h.extra_data,
                      SIGNER_VANITY_LENGTH + ADDRESS_LENGTH * (i - 1) + 1,
                      SIGNER_VANITY_LENGTH + ADDRESS_LENGTH * i)
  IN [i \in 1..n |-> CHOOSE a \in 0..NumAddrs : AddressBytes(a) = At(i)]

(* A checkpoint header that passes the structural checks and whose        *)
(* extraData holds a whole number of addresses.                           *)
ValidCheckpoint(h) ==
  /\ IsCheckpoint(h)
  /\ verify_block_basic(h).tag = "Ok"
  /\ Len(h.extra_data) >= SIGNER_VANITY_LENGTH + SIGNER_SIG_LENGTH
  /\ (Len(h.extra_data) - SIGNER_VANITY_LENGTH - SIGNER_SIG_LENGTH)
        % ADDRESS_LENGTH = 0

(* C16: once the engine has accepted a valid checkpoint header, its       *)
(* signer list is exactly the list embedded in that header's extraData.   *)
C16_SignersSeededFromCheckpoint ==
  (/\ op = "verify_block_unordered"
   /\ ret.tag = "Ok"
   /\ ValidCheckpoint(header))
    => signers = EmbeddedSigners(header)

(* C17: when generate_seal has returned a regular seal for the block in   *)
(* hand and on_close_block has returned Ok, the last 65 bytes of the      *)
(* block's extraData are the signature produced for it: the local         *)
(* signer's signature over the block's signing digest, or a field of the  *)
(* seal.                                                                  *)
C17_CloseEmbedsSignature ==
  (op = "on_close_block" /\ ret.tag = "Ok" /\ seal.tag = "Regular")
    => \/ /\ sign_header(header).tag = "Ok"
           /\ Trailing(header) = sign_header(header).val
       \/ \E i \in 1..Len(seal.val) : Trailing(header) = seal.val[i]

(* C18: sig_hash and recover return a result for every header and never   *)
(* abort; recover returns an error for a header whose extraData is        *)
(* shorter than 65 bytes, and an error when no key can be recovered from  *)
(* the signature.                                                         *)
C18_RecoveryFailuresAreErrors ==
  (op \in {"sig_hash", "recover"})
    => /\ ret.tag \in {"Ok", "Err"}
       /\ (op = "recover" /\ Len(header.extra_data) < SIGNER_SIG_LENGTH)
            => ret.tag = "Err"
       /\ (/\ op = "recover"
           /\ Len(header.extra_data) >= SIGNER_SIG_LENGTH
           /\ sig_hash(header).tag = "Ok"
           /\ ec_recover(Trailing(header), sig_hash(header).val[1]).tag = "Err")
            => ret.tag = "Err"

(* C19: on a header whose seal decodes to at least two fields,            *)
(* verify_block_basic returns Ok or Err whatever parameters the engine    *)
(* was built from, and the epoch length it divides by is not 0.           *)
C19_EpochDivisorNonZero ==
  (/\ op = "verify_block_basic"
   /\ decode_seal(header).tag = "Ok"
   /\ Len(header.seal) >= 2)
    => /\ ret.tag \in {"Ok", "Err"}
       /\ epoch_length # 0

(* The outcome of generate_seal on header h with the signing identity     *)
(* fixed at s ({} for no account, {a} for account a).                     *)
SealWith(s, h) ==
  LET hits == {i \in 1..Len(signers) : signers[i] \in s}
  IN IF h.number = 0 \/ hits = {} THEN SealNone
     ELSE IF h.number % (CHOOSE i \in hits : \A j \in hits : i <= j) = 0
          THEN SealRegular
          ELSE SealNone

(* C20: the outcome of a generate_seal call is the outcome it has with    *)
(* the signing identity fixed at one of the values it had during the      *)
(* call, however set_signer interleaves with the scan.                    *)
C20_SealDecidedOnOneIdentity ==
  (op = "generate_seal" /\ ~scan.active)
    => \E s \in scan.seen : ret = SealWith(s, header)

====
